---- MODULE Spec2Model ----
(***************************************************************************)
(* A model of the FEVER forwarding engine (processing/forward_handler.go)  *)
(* and of the Bloom filter handler (BloomHandler).                         *)
(*                                                                         *)
(* Spec        : the forwarding engine: the caller of Run and Stop, the    *)
(*               producers calling ForwardHandler.Consume, the goroutines  *)
(*               runForward, reconnectForward and runCounter, and a sink   *)
(*               that may die and come back.                               *)
(* CounterSpec : the engine with a stats encoder of any submit period, in  *)
(*               front of a sink that stays up.                            *)
(* FairSpec    : the engine without a stats encoder, one producer and a    *)
(*               queue of one slot, with the fairness Go's scheduler gives *)
(*               a runnable goroutine.                                     *)
(* GateSpec    : the engine in every configuration of the allow-list     *)
(*               gate, the added fields, the stenosis connector and rDNS,  *)
(*               with producers sending events of every type.              *)
(* LifeSpec    : the engine with a caller that also calls Run on the       *)
(*               running engine and Stop on one that is not running.       *)
(* BloomSpec   : the Bloom handler: Consume and Reload against a database  *)
(*               channel and a forward handler.                            *)
(* BloomFairSpec : the same over an empty and a full filter, with the    *)
(*               fairness of the scheduler, of the mutex and of the        *)
(*               database component.                                       *)
(***************************************************************************)
EXTENDS Integers, Sequences, FiniteSets, TLC

\* ------------------------------------------------------------------ bounds
\* Number of producer goroutines calling ForwardHandler.Consume.
NumProducers == 2
\* Number of ForwardHandler.Consume calls the producers make in all.
MaxCalls == 2
\* Capacity of ForwardEventChan in the model (10000 in Run).
QueueCap == 2
\* The same two for the specification with fairness, where a producer has
\* to find the channel full behind a writer that does not drain it.
LiveCalls == 4
LiveQueueCap == 1
\* Number of times the sink dies.
MaxOutages == 1
\* Largest configured ReconnectTimes (0 means: retry for ever).
MaxReconnectTimes == 1
\* fh.StatsEncoder.SubmitPeriod the engine usually runs with, in
\* milliseconds.
DefaultPeriod == 2000
\* Number of goroutines calling BloomHandler.Consume.
NumConsumers == 1
\* Number of Consume calls each of them makes.
MaxEvents == 2
\* Capacity of the database channel.
DbCap == 1
\* Number of Reload calls.
MaxReloads == 2
\* Largest number of blocked indicators the handler is built with.
MaxBlocked == 1
\* Number of Run calls on a running engine, and of Stop calls on an engine
\* that is not running, the caller makes.
MaxAgain == 1

Producers == 1..NumProducers

\* ------------------------------------------------------------------- state
VARIABLES
    \* configuration, fixed at construction
    ReconnectTimes, chanCap, StatsEncoder, SubmitPeriod, budget,
    \* util.ForwardAllEvents, the allow-list behind util.AllowType, and the
    \* handler's AddedFields, StenosisConnector (set or nil), StenosisIface
    \* and DoRDNS with an RDNSHandler; evTypes: the event types producers
    \* call Consume with
    ForwardAllEvents, AllowedTypes, AddedFields, StenosisConnector,
    StenosisIface, DoRDNS, evTypes,
    \* how often the caller calls Run on a running engine, and Stop on an
    \* engine that is not running
    againBudget,
    \* ForwardHandler fields
    Running, ForwardEventChan, queueState, OutputConn, Reconnecting,
    Lock, ForwardedPerSec,
    StopChan, StoppedChan, StopCounterChan, StoppedCounterChan,
    StopReconnectChan,
    \* the process: "up", "fatal" (log.Fatalf) or "panic"
    proc,
    \* the caller of Run and Stop: its position, and the calls it has made
    \* of Run on a running engine and of Stop on one that is not running
    mpc, agains,
    \* runForward
    wpc, item,
    \* reconnectForward
    rpc, ri, rerr, rconn,
    \* runCounter
    cpc, myStats,
    \* producers in ForwardHandler.Consume
    ppc, sent, calls,
    \* per producer: the event of its last call, as the call left it, and
    \* what the call returned; the events the stenosis connector accepted
    pev, pret, accepted,
    \* the sink: whether it listens, and every connection ever dialed
    sinkUp, outages, conns, sinkLog,
    \* history
    outage, wtag, rtag, ackCloses,
    enqSince, snapEnq, snapLive,
    \* BloomHandler fields: the filter's content, the blocklist, the
    \* embedded mutex's holder (0: free) and the database channel
    IocBloom, BlocklistIOCs, bmu, DatabaseEventChan,
    \* goroutines in BloomHandler.Consume: position, event, alert in hand
    bpc, bev, balert, bcount,
    \* Reload: position and number of filters installed
    rlpc, reloads,
    \* history of the Consume call in progress: the database sends and
    \* forward calls made, the filter versions its checks saw, the version
    \* installed when it took the mutex
    btrace, checkVers, lockVer,
    \* per consumer, the Lock and Unlock calls of its current Consume call
    bmux

cfgV     == <<ReconnectTimes, chanCap, StatsEncoder, SubmitPeriod, budget,
              ForwardAllEvents, AllowedTypes, AddedFields, StenosisConnector,
              StenosisIface, DoRDNS, evTypes, againBudget>>
chanV    == <<StopChan, StoppedChan, StopCounterChan, StoppedCounterChan,
              StopReconnectChan>>
mainV    == <<mpc, Running, agains>>
writerV  == <<wpc, item, wtag>>
reconnV  == <<rpc, ri, rerr, rconn, rtag>>
counterV == <<cpc, myStats, snapEnq, snapLive>>
statV    == <<ForwardedPerSec, enqSince>>
prodV    == <<ppc, sent, calls, pev, pret, accepted>>
queueV   == <<ForwardEventChan, queueState>>
sockV    == <<OutputConn, conns, sinkLog>>
envV     == <<sinkUp, outages>>
histV    == <<outage, ackCloses>>

fwdVars == <<cfgV, chanV, mainV, writerV, reconnV, counterV, statV, prodV,
             queueV, sockV, envV, histV, Reconnecting, Lock, proc>>

bloomV == <<IocBloom, BlocklistIOCs, bmu, DatabaseEventChan, bpc, bev,
            balert, bcount, rlpc, reloads, btrace, checkVers, lockVer,
            bmux>>

vars == <<fwdVars, bloomV>>

\* ----------------------------------------------------------------- helpers
\* The newline the writer sends after a payload.
NL == [src |-> 0, seq |-> 0, out |-> FALSE, deq |-> FALSE, seen |-> FALSE]

\* No item held.
NoItem == [src |-> 0, seq |-> 0, out |-> TRUE, deq |-> FALSE, seen |-> FALSE]

\* []byte(e.JSONLine) of the n-th event of producer p. History kept with it:
\* out, whether it was enqueued during an outage; deq, whether the reconnect
\* flag was set when the writer dequeued it; seen, whether the writer read
\* the flag as set when it tested it for this payload.
Payload(p, n) ==
    [src |-> p, seq |-> n, out |-> outage, deq |-> FALSE, seen |-> FALSE]

\* net.Conn.Write: succeeds when the connection is open at both ends.
WriteOk(c) == conns[c].open /\ conns[c].alive

\* net.Conn.Close
CloseConn(c) == [conns EXCEPT ![c].open = FALSE]

Min(a, b) == IF a < b THEN a ELSE b

\* e.JSONLine as a sequence of tokens, the last one the final brace.
JsonLine == <<"{", "}">>

\* An event of type t as a producer passes it to Consume.
Event(t) == [type |-> t, iface |-> "eth0", line |-> JsonLine]

NoEv == [type |-> "", iface |-> "", line |-> <<>>]

EventTypes == {"alert", "flow"}

\* -------------------------------------------------------------------- Init
\* The state MakeForwardHandler leaves: no queue, no socket, the reconnect
\* channels made, nothing running.
MakeForwardHandler ==
    /\ Running = FALSE
    /\ ForwardEventChan = <<>>
    /\ queueState = "nil"
    /\ OutputConn = 0
    /\ Reconnecting = FALSE
    /\ Lock = "free"
    /\ ForwardedPerSec = 0
    /\ StopChan = "nil"
    /\ StoppedChan = "nil"
    /\ StopCounterChan = "nil"
    /\ StoppedCounterChan = "nil"
    /\ StopReconnectChan = "open"
    /\ proc = "up"
    /\ mpc = "new" /\ agains = [run |-> 0, stop |-> 0]
    /\ wpc = "off" /\ item = NoItem /\ wtag = 0
    /\ rpc = "off" /\ ri = 0 /\ rerr = FALSE /\ rconn = 0 /\ rtag = 0
    /\ cpc = "off" /\ myStats = 0
    /\ ppc = [p \in Producers |-> "idle"]
    /\ sent = [p \in Producers |-> 0]
    /\ calls = 0
    /\ pev = [p \in Producers |-> NoEv]
    /\ pret = [p \in Producers |-> "none"]
    /\ accepted = 0
    /\ sinkUp = TRUE /\ outages = 0
    /\ conns = <<>> /\ sinkLog = <<>>
    /\ outage = FALSE /\ ackCloses = 0
    /\ enqSince = 0 /\ snapEnq = 0 /\ snapLive = 0

\* ------------------------------------------------------- Run and Stop
\* A faulty variant: Run does not look at fh.Running.
MayRun_Always == TRUE

\* if !fh.Running
MayRun == ~Running

\* A faulty variant: Stop does not look at fh.Running.
MayStop_Always == TRUE

\* if fh.Running
MayStop == Running

\* ForwardHandler.Run is called, on a new engine or on a running one (the
\* caller does not start a stopped engine again). Unless the engine runs
\* already the channels are made and reconnectForward is started and waits
\* for a request.
RunAlloc ==
    /\ proc = "up" /\ mpc \in {"new", "up"}
    /\ mpc = "up" => agains.run < againBudget
    /\ agains' = IF mpc = "up" THEN [agains EXCEPT !.run = @ + 1] ELSE agains
    /\ IF MayRun
         THEN /\ StopChan' = "open"
              /\ ForwardEventChan' = <<>> /\ queueState' = "open"
              /\ StopCounterChan' = "open"
              /\ StoppedCounterChan' = "open"
              /\ rpc' = "recv"
              /\ mpc' = "run_notify"
         ELSE UNCHANGED <<StopChan, ForwardEventChan, queueState,
                          StopCounterChan, StoppedCounterChan, rpc, mpc>>
    /\ UNCHANGED <<cfgV, StoppedChan, StopReconnectChan, Running, writerV,
                   ri, rerr, rconn, rtag, counterV, statV, prodV, sockV,
                   envV, histV, Reconnecting, Lock, proc, bloomV>>

\* fh.ReconnectNotifyChan <- true in Run: the channel is unbuffered, the
\* send completes when reconnectForward receives.
RunNotify ==
    /\ proc = "up" /\ mpc = "run_notify" /\ rpc = "recv"
    /\ rpc' = "dial" /\ rtag' = OutputConn
    /\ mpc' = "run_go"
    /\ UNCHANGED <<cfgV, chanV, Running, agains, writerV, ri, rerr, rconn, counterV,
                   statV, prodV, queueV, sockV, envV, histV, Reconnecting,
                   Lock, proc, bloomV>>

\* The rest of Run: runForward and runCounter start, Running is set.
RunGo ==
    /\ proc = "up" /\ mpc = "run_go"
    /\ wpc' = "outer" /\ cpc' = "sleep"
    /\ Running' = TRUE
    /\ mpc' = "up"
    /\ UNCHANGED <<cfgV, chanV, agains, item, wtag, reconnV, myStats, snapEnq,
                   snapLive, statV, prodV, queueV,
                   sockV, envV, histV, Reconnecting, Lock, proc, bloomV>>

\* ForwardHandler.Stop is called, on a running engine or on one that is not
\* running (new, or stopped): close(fh.StopCounterChan) if it runs.
StopBegin ==
    /\ proc = "up" /\ mpc \in {"new", "up", "down"}
    /\ mpc # "up" => agains.stop < againBudget
    /\ agains' = IF mpc # "up" THEN [agains EXCEPT !.stop = @ + 1] ELSE agains
    /\ IF MayStop
         THEN /\ StopCounterChan' = "closed"
              /\ mpc' = "stop_wait"
         ELSE UNCHANGED <<StopCounterChan, mpc>>
    /\ UNCHANGED <<cfgV, StopChan, StoppedChan, StoppedCounterChan,
                   StopReconnectChan, Running, writerV, reconnV, counterV,
                   statV, prodV, queueV, sockV, envV, histV, Reconnecting,
                   Lock, proc, bloomV>>

\* <-fh.StoppedCounterChan; fh.StoppedChan = stoppedChan
StopWait ==
    /\ proc = "up" /\ mpc = "stop_wait" /\ StoppedCounterChan = "closed"
    /\ StoppedChan' = "open"
    /\ mpc' = "stop_conn"
    /\ UNCHANGED <<cfgV, StopChan, StopCounterChan, StoppedCounterChan,
                   StopReconnectChan, Running, agains, writerV, reconnV, counterV,
                   statV, prodV, queueV, sockV, envV, histV, Reconnecting,
                   Lock, proc, bloomV>>

\* fh.Lock.Lock(); fh.OutputConn.Close(); fh.Lock.Unlock(). A call on the
\* nil interface value panics.
StopCloseConn ==
    /\ proc = "up" /\ mpc = "stop_conn" /\ Lock = "free"
    /\ IF OutputConn = 0
         THEN /\ proc' = "panic"
              /\ UNCHANGED <<conns, mpc>>
         ELSE /\ conns' = CloseConn(OutputConn)
              /\ mpc' = "stop_reconn"
              /\ UNCHANGED proc
    /\ UNCHANGED <<cfgV, chanV, Running, agains, writerV, reconnV, counterV,
                   statV, prodV, queueV, OutputConn, sinkLog, envV, histV,
                   Reconnecting, Lock, bloomV>>

\* close(fh.StopReconnectChan)
StopCloseReconn ==
    /\ proc = "up" /\ mpc = "stop_reconn"
    /\ StopReconnectChan' = "closed"
    /\ mpc' = "stop_chan"
    /\ UNCHANGED <<cfgV, StopChan, StoppedChan, StopCounterChan,
                   StoppedCounterChan, Running, agains, writerV, reconnV, counterV,
                   statV, prodV, queueV, sockV, envV, histV, Reconnecting,
                   Lock, proc, bloomV>>

\* close(fh.StopChan)
StopCloseStop ==
    /\ proc = "up" /\ mpc = "stop_chan"
    /\ StopChan' = "closed"
    /\ mpc' = "stop_queue"
    /\ UNCHANGED <<cfgV, StoppedChan, StopCounterChan, StoppedCounterChan,
                   StopReconnectChan, Running, agains, writerV, reconnV, counterV,
                   statV, prodV, queueV, sockV, envV, histV, Reconnecting,
                   Lock, proc, bloomV>>

\* close(fh.ForwardEventChan); fh.Running = false
StopCloseQueue ==
    /\ proc = "up" /\ mpc = "stop_queue"
    /\ queueState' = "closed"
    /\ Running' = FALSE
    /\ mpc' = "down"
    /\ UNCHANGED <<cfgV, chanV, agains, writerV, reconnV, counterV, statV, prodV,
                   ForwardEventChan, sockV, envV, histV, Reconnecting, Lock,
                   proc, bloomV>>

\* --------------------------------------------------- reconnectForward
\* net.Dial("unix", fh.OutputSocket): a new connection when the sink
\* listens, an error otherwise.
Dial ==
    IF sinkUp
      THEN /\ conns' = Append(conns, [open |-> TRUE, alive |-> TRUE])
           /\ sinkLog' = Append(sinkLog, <<>>)
           /\ rconn' = Len(conns) + 1
           /\ rerr' = FALSE
      ELSE /\ rconn' = 0
           /\ rerr' = TRUE
           /\ UNCHANGED <<conns, sinkLog>>

\* The first dial of an iteration, made before the reconnect flag is read.
RDial ==
    /\ proc = "up" /\ rpc = "dial"
    /\ Dial
    /\ rpc' = "flag"
    /\ UNCHANGED <<cfgV, chanV, mainV, writerV, ri, rtag, counterV, statV,
                   prodV, queueV, OutputConn, envV, histV, Reconnecting,
                   Lock, proc, bloomV>>

\* Under ReconnLock: set the flag, or give the request up when it is set.
RFlag ==
    /\ proc = "up" /\ rpc = "flag"
    /\ IF ~Reconnecting
         THEN /\ Reconnecting' = TRUE
              /\ rpc' = "loop"
              /\ ri' = 0
              /\ UNCHANGED <<rerr, rconn, rtag>>
         ELSE /\ rpc' = "recv"
              /\ ri' = 0 /\ rerr' = FALSE /\ rconn' = 0 /\ rtag' = 0
              /\ UNCHANGED Reconnecting
    /\ UNCHANGED <<cfgV, chanV, mainV, writerV, counterV, statV, prodV,
                   queueV, sockV, envV, histV, Lock, proc, bloomV>>

\* A faulty variant: the limit is tested one retry late.
RetryCond_OneMore == (ReconnectTimes = 0 \/ ri <= ReconnectTimes) /\ rerr

\* The condition of the retry loop.
RetryCond == (ReconnectTimes = 0 \/ ri < ReconnectTimes) /\ rerr

\* One evaluation of the retry loop's condition and of its select; past the
\* loop, log.Fatalf ends the process when the last dial failed.
RLoop ==
    /\ proc = "up" /\ rpc = "loop"
    /\ IF RetryCond
         THEN /\ rpc' = IF StopReconnectChan = "closed" THEN "done"
                        ELSE "retry"
              /\ UNCHANGED proc
         ELSE IF rerr
           THEN /\ proc' = "fatal"
                /\ UNCHANGED rpc
           ELSE /\ rpc' = "install"
                /\ UNCHANGED proc
    /\ UNCHANGED <<cfgV, chanV, mainV, writerV, ri, rerr, rconn, rtag,
                   counterV, statV, prodV, queueV, sockV, envV, histV,
                   Reconnecting, Lock, bloomV>>

\* time.Sleep and the next dial, then i++. With ReconnectTimes = 0 the count
\* is only logged, so it is kept no larger than the largest limit.
RRetry ==
    /\ proc = "up" /\ rpc = "retry"
    /\ Dial
    /\ ri' = IF ReconnectTimes = 0 THEN Min(ri + 1, MaxReconnectTimes)
             ELSE ri + 1
    /\ rpc' = "loop"
    /\ UNCHANGED <<cfgV, chanV, mainV, writerV, rtag, counterV, statV,
                   prodV, queueV, OutputConn, envV, histV, Reconnecting,
                   Lock, proc, bloomV>>

\* fh.Lock.Unlock() after the new connection is installed.
LockAfterInstall == "free"

\* fh.Lock.Lock(); fh.OutputConn = outputConn; fh.Lock.Unlock()
RInstall ==
    /\ proc = "up" /\ rpc = "install" /\ Lock = "free"
    /\ OutputConn' = rconn
    /\ Lock' = LockAfterInstall
    /\ rpc' = "clear"
    /\ UNCHANGED <<cfgV, chanV, mainV, writerV, ri, rerr, rconn, rtag,
                   counterV, statV, prodV, queueV, conns, sinkLog, envV,
                   histV, Reconnecting, proc, bloomV>>

\* Under ReconnLock: fh.Reconnecting = false; the cycle is complete and the
\* reconnector waits for the next request.
RClear ==
    /\ proc = "up" /\ rpc = "clear"
    /\ Reconnecting' = FALSE
    /\ rpc' = "recv"
    /\ ri' = 0 /\ rerr' = FALSE /\ rconn' = 0 /\ rtag' = 0
    /\ outage' = FALSE
    /\ UNCHANGED <<cfgV, chanV, mainV, writerV, counterV, statV, prodV,
                   queueV, sockV, envV, ackCloses, Lock, proc, bloomV>>

\* --------------------------------------------------------- runForward
\* close(fh.StoppedChan); return
CloseAck ==
    /\ StoppedChan' = "closed"
    /\ ackCloses' = ackCloses + 1
    /\ wpc' = "done"

\* The outer select: stop, or enter the range loop over the queue.
WOuter ==
    /\ proc = "up" /\ wpc = "outer"
    /\ IF StopChan = "closed"
         THEN CloseAck
         ELSE /\ wpc' = "range"
              /\ UNCHANGED <<StoppedChan, ackCloses>>
    /\ UNCHANGED <<cfgV, StopChan, StopCounterChan, StoppedCounterChan,
                   StopReconnectChan, mainV, item, wtag, reconnV, counterV,
                   statV, prodV, queueV, sockV, envV, outage,
                   Reconnecting, Lock, proc, bloomV>>

\* A faulty variant: The writer takes the newest payload.
Dequeue_Newest(q) == q[Len(q)]

\* The next payload of the channel: its oldest one.
Dequeue(q) == Head(q)

\* for item := range fh.ForwardEventChan: the next payload, or the end of
\* the loop when the channel is closed and empty.
WRange ==
    /\ proc = "up" /\ wpc = "range"
    /\ \/ /\ ForwardEventChan # <<>>
          /\ item' = [Dequeue(ForwardEventChan) EXCEPT !.deq = Reconnecting]
          /\ ForwardEventChan' = Tail(ForwardEventChan)
          /\ wpc' = "sel"
       \/ /\ ForwardEventChan = <<>> /\ queueState = "closed"
          /\ wpc' = "outer"
          /\ UNCHANGED <<item, ForwardEventChan>>
    /\ UNCHANGED <<cfgV, chanV, mainV, wtag, reconnV, counterV, statV,
                   prodV, queueState, sockV, envV, histV, Reconnecting,
                   Lock, proc, bloomV>>

\* The inner select: stop, or handle the payload.
WSel ==
    /\ proc = "up" /\ wpc = "sel"
    /\ IF StopChan = "closed"
         THEN /\ CloseAck
              /\ item' = NoItem
         ELSE /\ wpc' = "chk"
              /\ UNCHANGED <<StoppedChan, ackCloses, item>>
    /\ UNCHANGED <<cfgV, StopChan, StopCounterChan, StoppedCounterChan,
                   StopReconnectChan, mainV, wtag, reconnV, counterV, statV,
                   prodV, queueV, sockV, envV, outage,
                   Reconnecting, Lock, proc, bloomV>>

\* A faulty variant: the writer ignores the flag.
SkipOnFlag_Never(flag) == FALSE

\* if fh.Reconnecting { ...; continue }
SkipOnFlag(flag) == flag

\* Under ReconnLock: a payload found while reconnecting is skipped.
WChk ==
    /\ proc = "up" /\ wpc = "chk"
    /\ item' = [item EXCEPT !.seen = Reconnecting]
    /\ wpc' = IF SkipOnFlag(Reconnecting) THEN "range" ELSE "lock"
    /\ UNCHANGED <<cfgV, chanV, mainV, wtag, reconnV, counterV, statV,
                   prodV, queueV, sockV, envV, histV, Reconnecting, Lock,
                   proc, bloomV>>

\* What the writer does after a failed write of the payload: it asks for a
\* reconnect.
AfterPayloadError == "notify"

\* A faulty variant: the writer keeps the socket mutex when it asks for a
\* reconnect.
LockAfterPayloadError_Held == "writer"

\* fh.Lock.Unlock() after a failed write of the payload, before the request.
LockAfterPayloadError == "free"

\* What the writer does after a failed write of the newline: it goes on with
\* the next payload.
AfterNewlineError == "range"

\* fh.Lock.Lock() and the write of the payload. Without a socket nothing is
\* written; after an error the socket is closed and the lock released.
WWrite ==
    /\ proc = "up" /\ wpc = "lock" /\ Lock = "free"
    /\ IF OutputConn = 0
         THEN /\ wpc' = "range"
              /\ item' = NoItem
              /\ UNCHANGED <<Lock, conns, sinkLog, wtag, outage>>
         ELSE IF WriteOk(OutputConn)
           THEN /\ sinkLog' = [sinkLog EXCEPT
                                 ![OutputConn] = Append(@, item)]
                /\ Lock' = "writer"
                /\ wpc' = "nl"
                /\ UNCHANGED <<item, conns, wtag, outage>>
           ELSE /\ conns' = CloseConn(OutputConn)
                /\ wpc' = AfterPayloadError
                /\ wtag' = OutputConn
                /\ outage' = TRUE
                /\ item' = NoItem
                /\ Lock' = LockAfterPayloadError
                /\ UNCHANGED sinkLog
    /\ UNCHANGED <<cfgV, chanV, mainV, reconnV, counterV, statV, prodV,
                   queueV, OutputConn, envV, ackCloses,
                   Reconnecting, proc, bloomV>>

\* The write of the newline, still under the lock, and fh.Lock.Unlock().
WNewline ==
    /\ proc = "up" /\ wpc = "nl" /\ Lock = "writer"
    /\ IF WriteOk(OutputConn)
         THEN /\ sinkLog' = [sinkLog EXCEPT ![OutputConn] = Append(@, NL)]
              /\ wpc' = "range"
              /\ UNCHANGED <<conns, outage, wtag>>
         ELSE /\ conns' = CloseConn(OutputConn)
              /\ wpc' = AfterNewlineError
              /\ outage' = TRUE
              /\ UNCHANGED <<sinkLog, wtag>>
    /\ Lock' = "free"
    /\ item' = NoItem
    /\ UNCHANGED <<cfgV, chanV, mainV, reconnV, counterV, statV, prodV,
                   queueV, OutputConn, envV, ackCloses,
                   Reconnecting, proc, bloomV>>

\* fh.ReconnectNotifyChan <- true: the send completes when reconnectForward
\* receives.
WNotify ==
    /\ proc = "up" /\ wpc = "notify" /\ rpc = "recv"
    /\ rpc' = "dial" /\ rtag' = wtag
    /\ wpc' = "range" /\ wtag' = 0
    /\ UNCHANGED <<cfgV, chanV, mainV, item, ri, rerr, rconn, counterV,
                   statV, prodV, queueV, sockV, envV, histV, Reconnecting,
                   Lock, proc, bloomV>>

\* ---------------------------------------------- ForwardHandler.Consume
\* util.AllowType(t)
AllowType(t) == t \in AllowedTypes

\* A faulty variant: every event is forwarded.
DoForwardThis_All(e) == TRUE

\* doForwardThis := util.ForwardAllEvents || util.AllowType(e.EventType)
DoForwardThis(e) == ForwardAllEvents \/ AllowType(e.type)

\* The JSON line with the added fields in place of its final brace, when
\* there are any.
AddFields(j) ==
    IF Len(AddedFields) > 1
      THEN SubSeq(j, 1, Len(j) - 1) \o AddedFields
      ELSE j

\* Whether the stenosis connector takes the event.
ToStenosis(e) ==
    /\ StenosisConnector
    /\ e.type = "alert"
    /\ (StenosisIface = "*" \/ e.iface = StenosisIface)

\* A producer calls Consume with event e, up to the send on the queue: an
\* event that is not forwarded returns nil at once; the rDNS handler may
\* fail and its error is returned; the added fields are put in; the
\* stenosis connector takes the event, or the payload is about to be
\* enqueued. Producers are started once Run has returned.
PCall(p, e) ==
    /\ proc = "up" /\ ppc[p] = "idle" /\ calls < budget
    /\ mpc \notin {"new", "run_notify", "run_go"}
    /\ calls' = calls + 1
    /\ IF ~DoForwardThis(e)
         THEN /\ pev' = [pev EXCEPT ![p] = e]
              /\ pret' = [pret EXCEPT ![p] = "nil"]
              /\ UNCHANGED <<ppc, accepted>>
         ELSE \/ /\ DoRDNS
                 /\ pev' = [pev EXCEPT ![p] = e]
                 /\ pret' = [pret EXCEPT ![p] = "err"]
                 /\ UNCHANGED <<ppc, accepted>>
              \/ /\ pev' = [pev EXCEPT
                              ![p] = [e EXCEPT !.line = AddFields(e.line)]]
                 /\ IF ToStenosis(e)
                      THEN /\ accepted' = accepted + 1
                           /\ pret' = [pret EXCEPT ![p] = "nil"]
                           /\ UNCHANGED ppc
                      ELSE /\ ppc' = [ppc EXCEPT ![p] = "enq"]
                           /\ pret' = [pret EXCEPT ![p] = "none"]
                           /\ UNCHANGED accepted
    /\ UNCHANGED <<cfgV, chanV, mainV, writerV, reconnV, counterV, statV,
                   sent, queueV, sockV, envV, histV, Reconnecting, Lock,
                   proc, bloomV>>

\* fh.ForwardEventChan <- []byte(e.JSONLine): waits while the channel is
\* full, panics when it is closed.
PEnqueue(p) ==
    /\ proc = "up" /\ ppc[p] = "enq"
    /\ IF queueState = "closed"
         THEN /\ proc' = "panic"
              /\ UNCHANGED <<ForwardEventChan, ppc, enqSince>>
         ELSE /\ Len(ForwardEventChan) < chanCap
              /\ ForwardEventChan' =
                     Append(ForwardEventChan, Payload(p, sent[p] + 1))
              /\ ppc' = [ppc EXCEPT ![p] = "inc"]
              /\ enqSince' = enqSince + 1
              /\ UNCHANGED proc
    /\ UNCHANGED <<cfgV, chanV, mainV, writerV, reconnV, counterV,
                   ForwardedPerSec, sent, calls, pev, pret, accepted,
                   queueState, sockV, envV, histV, Reconnecting, Lock,
                   bloomV>>

\* fh.Lock.Lock(); fh.PerfStats.ForwardedPerSec++; fh.Lock.Unlock()
PCount(p) ==
    /\ proc = "up" /\ ppc[p] = "inc" /\ Lock = "free"
    /\ ForwardedPerSec' = ForwardedPerSec + 1
    /\ ppc' = [ppc EXCEPT ![p] = "idle"]
    /\ sent' = [sent EXCEPT ![p] = @ + 1]
    /\ pret' = [pret EXCEPT ![p] = "nil"]
    /\ UNCHANGED <<cfgV, chanV, mainV, writerV, reconnV, counterV,
                   enqSince, calls, pev, accepted, queueV, sockV, envV, histV,
                   Reconnecting, Lock, proc, bloomV>>

\* --------------------------------------------------------- runCounter
\* After the sleep: stop, or take a snapshot once the period has passed
\* (an iteration before that, or without a stats encoder, changes nothing).
CWake ==
    /\ proc = "up" /\ cpc = "sleep"
    /\ IF StopCounterChan = "closed"
         THEN /\ StoppedCounterChan' = "closed"
              /\ cpc' = "done"
         ELSE /\ StatsEncoder
              /\ cpc' = "snap"
              /\ UNCHANGED StoppedCounterChan
    /\ UNCHANGED <<cfgV, StopChan, StoppedChan, StopCounterChan,
                   StopReconnectChan, mainV, writerV, reconnV, myStats,
                   snapEnq, snapLive, statV, prodV,
                   queueV, sockV, envV, histV, Reconnecting, Lock, proc,
                   bloomV>>

\* uint64(d.Seconds()) of a duration of ms milliseconds: the whole seconds.
Seconds(ms) == ms \div 1000

\* The figure submitted for a counter value.
PerSec(n) == n \div Seconds(SubmitPeriod)

\* The live counter after the snapshot.
ResetCounter(n) == 0

\* fh.Lock.Unlock() after the snapshot, before the submission.
LockAtSubmit == "free"

\* Under fh.Lock: copy the counter, divide the copy, reset the live counter.
\* The division is an integer division: by zero it panics.
CSnap ==
    /\ proc = "up" /\ cpc = "snap" /\ Lock = "free"
    /\ IF Seconds(SubmitPeriod) = 0
         THEN /\ proc' = "panic"
              /\ UNCHANGED <<counterV, statV, Lock>>
         ELSE /\ myStats' = PerSec(ForwardedPerSec)
              /\ ForwardedPerSec' = ResetCounter(ForwardedPerSec)
              /\ snapLive' = ForwardedPerSec'
              /\ snapEnq' = enqSince
              /\ enqSince' = 0
              /\ cpc' = "submit"
              /\ Lock' = LockAtSubmit
              /\ UNCHANGED proc
    /\ UNCHANGED <<cfgV, chanV, mainV, writerV, reconnV, prodV, queueV,
                   sockV, envV, histV, Reconnecting, bloomV>>

\* fh.StatsEncoder.Submit(myStats); sTime = time.Now()
CSubmit ==
    /\ proc = "up" /\ cpc = "submit"
    /\ cpc' = "sleep"
    /\ myStats' = 0
    /\ snapEnq' = 0 /\ snapLive' = 0
    /\ UNCHANGED <<cfgV, chanV, mainV, writerV, reconnV, statV, prodV,
                   queueV, sockV, envV, histV, Reconnecting, Lock, proc,
                   bloomV>>

\* ------------------------------------------------------------ the sink
\* The sink dies: every connection to it is broken and dials fail.
SinkDown ==
    /\ proc = "up" /\ sinkUp /\ outages < MaxOutages
    /\ mpc # "new"
    /\ sinkUp' = FALSE
    /\ outages' = outages + 1
    /\ conns' = [c \in DOMAIN conns |-> [conns[c] EXCEPT !.alive = FALSE]]
    /\ UNCHANGED <<cfgV, chanV, mainV, writerV, reconnV, counterV, statV,
                   prodV, queueV, OutputConn, sinkLog, histV, Reconnecting,
                   Lock, proc, bloomV>>

\* The sink listens again.
SinkUp ==
    /\ proc = "up" /\ ~sinkUp
    /\ sinkUp' = TRUE
    /\ UNCHANGED <<cfgV, chanV, mainV, writerV, reconnV, counterV, statV,
                   prodV, queueV, sockV, outages, histV, Reconnecting,
                   Lock, proc, bloomV>>

\* ------------------------------------------------ strings and events
\* A string is a sequence of tokens: the scheme "http://", a host name, a
\* path, a query, or an escape url.Parse rejects.
Scheme == "http://"
BadEscape == "%"
IsHostTok(t) == t \in {"a"}
IsPathTok(t) == t \in {"/x"}

\* strings.Contains(e.HTTPUrl, "://")
HasScheme(s) == \E i \in 1..Len(s) : s[i] = Scheme

\* The URL Consume parses: e.HTTPUrl when it is already qualified, else
\* "http://" + e.HTTPHost + e.HTTPUrl.
FullURL(e) == IF HasScheme(e.url) THEN e.url ELSE <<Scheme>> \o e.host \o e.url

\* url.Parse fails on an invalid escape.
ParseOk(s) == \A i \in 1..Len(s) : s[i] # BadEscape

\* u.Host and u.Path of the parsed URL (the scheme and the query are not
\* part of either).
UHost(s) == SelectSeq(s, IsHostTok)
UPath(s) == SelectSeq(s, IsPathTok)

\* fmt.Sprintf("%s%s", u.Host, u.Path)
HostPath(s) == UHost(s) \o UPath(s)

HostA == <<"a">>
NoStr == <<>>

\* The events fed to the handler.
HttpEvents ==
    { [type |-> "http", host |-> HostA, url |-> u, rrname |-> NoStr,
       dnstype |-> "", sni |-> NoStr] :
      u \in { <<"/x">>, <<"/x", "?q">>, <<Scheme, "a", "/x">>,
              <<"/x", BadEscape>> } }
DnsEvents ==
    { [type |-> "dns", host |-> NoStr, url |-> NoStr, rrname |-> HostA,
       dnstype |-> t, sni |-> NoStr] : t \in {"query", "answer", "other"} }
TlsEvents ==
    { [type |-> "tls", host |-> NoStr, url |-> NoStr, rrname |-> NoStr,
       dnstype |-> "", sni |-> HostA] }
OtherEvents ==
    { [type |-> "flow", host |-> NoStr, url |-> NoStr, rrname |-> NoStr,
       dnstype |-> "", sni |-> NoStr] }
Events == HttpEvents \cup DnsEvents \cup TlsEvents \cup OtherEvents
NoEvent == CHOOSE e \in OtherEvents : TRUE

\* Every string the handler can look up for these events.
IOCs ==
    { HostA } \cup
    UNION { { FullURL(e), HostPath(FullURL(e)), UPath(FullURL(e)) } :
            e \in { h \in HttpEvents : ParseOk(FullURL(h)) } }

\* a.IocBloom.Check([]byte(x)): the filter's content is the set of strings
\* it answers true for, false positives included.
Check(x) == x \in IocBloom

\* _, present := a.BlocklistIOCs[x]
Blocked(x) == x \in BlocklistIOCs

\* MakeAlertEntryForHit: the alert for a hit of kind eType on ioc.
MakeAlertEntryForHit(e, eType, ioc) ==
    [ event_type |-> "alert",
      kind  |-> eType,
      ioc   |-> ioc,
      value |-> CASE eType = "http-url"  -> e.host \o e.url
                  [] eType = "http-host" -> e.host
                  [] eType \in {"dns-req", "dns-resp"} -> e.rrname
                  [] eType = "tls-sni"   -> e.sni
                  [] OTHER -> NoStr ]

NoAlert == [event_type |-> "", kind |-> "", ioc |-> NoStr, value |-> NoStr]

Consumers == 1..NumConsumers

\* The state MakeBloomHandlerFromFile leaves: a filter loaded from the
\* file, the blocklist given, nothing in progress.
MakeBloomHandlerFromFile ==
    /\ IocBloom \in SUBSET IOCs
    /\ BlocklistIOCs \in {b \in SUBSET IOCs : Cardinality(b) <= MaxBlocked}
    /\ bmu = 0
    /\ DatabaseEventChan = <<>>
    /\ bpc = [c \in Consumers |-> "idle"]
    /\ bev = [c \in Consumers |-> NoEvent]
    /\ balert = [c \in Consumers |-> NoAlert]
    /\ bcount = [c \in Consumers |-> 0]
    /\ rlpc = "idle"
    /\ reloads = 0
    /\ btrace = [c \in Consumers |-> <<>>]
    /\ checkVers = [c \in Consumers |-> {}]
    /\ lockVer = [c \in Consumers |-> 0]
    /\ bmux = [c \in Consumers |-> [locks |-> 0, unlocks |-> 0]]

\* ------------------------------------------------ BloomHandler.Consume
\* a.Unlock()
Unlock(c) ==
    /\ bmu' = 0
    /\ bmux' = [bmux EXCEPT ![c].unlocks = @ + 1]

\* Return from Consume.
BReturn(c) ==
    /\ bpc' = [bpc EXCEPT ![c] = "idle"]
    /\ bcount' = [bcount EXCEPT ![c] = @ + 1]

\* Consume is called with event e: an event of another type returns at
\* once, the others go for the mutex.
BCall(c, e) ==
    /\ bpc[c] = "idle" /\ bcount[c] < MaxEvents
    /\ bev' = [bev EXCEPT ![c] = e]
    /\ btrace' = [btrace EXCEPT ![c] = <<>>]
    /\ bmux' = [bmux EXCEPT ![c] = [locks |-> 0, unlocks |-> 0]]
    /\ checkVers' = [checkVers EXCEPT ![c] = {}]
    /\ IF e.type \in {"http", "dns", "tls"}
         THEN /\ bpc' = [bpc EXCEPT ![c] = "lock"]
              /\ UNCHANGED bcount
         ELSE BReturn(c)
    /\ UNCHANGED <<IocBloom, BlocklistIOCs, bmu, DatabaseEventChan, balert,
                   rlpc, reloads, lockVer, fwdVars>>

\* a.Lock()
BLock(c) ==
    /\ bpc[c] = "lock" /\ bmu = 0
    /\ bmu' = c
    /\ bmux' = [bmux EXCEPT ![c].locks = @ + 1]
    /\ lockVer' = [lockVer EXCEPT ![c] = reloads]
    /\ bpc' = [bpc EXCEPT ![c] = CASE bev[c].type = "http" -> "host"
                                   [] bev[c].type = "dns"  -> "dns"
                                   [] OTHER -> "tls"]
    /\ UNCHANGED <<IocBloom, BlocklistIOCs, DatabaseEventChan, bev, balert,
                   bcount, rlpc, reloads, btrace, checkVers, fwdVars>>

\* A faulty variant: The blocklist is not consulted.
Emits_Unchecked(x) == TRUE

\* Whether a value that hit the filter raises an alert.
Emits(x) == ~Blocked(x)

\* A faulty variant: The forward handler is called before the database send.
EmitFirst_Forward == "fwd"

\* The first thing done with a new alert: the send on the database channel.
EmitFirst == "db"

\* The alert in hand goes to the database channel next; the checks of this
\* step were answered by the installed filter.
Raise(c, kind, ioc) ==
    /\ balert' = [balert EXCEPT
                    ![c] = MakeAlertEntryForHit(bev[c], kind, ioc)]
    /\ bpc' = [bpc EXCEPT ![c] = EmitFirst]

\* The check of e.HTTPHost.
BHost(c) ==
    /\ bpc[c] = "host" /\ bmu = c
    /\ checkVers' = [checkVers EXCEPT ![c] = @ \cup {reloads}]
    /\ IF Check(bev[c].host) /\ Emits(bev[c].host)
         THEN Raise(c, "http-host", bev[c].host)
         ELSE /\ bpc' = [bpc EXCEPT ![c] = "url"]
              /\ UNCHANGED balert
    /\ UNCHANGED <<IocBloom, BlocklistIOCs, bmu, DatabaseEventChan, bev,
                   bcount, rlpc, reloads, btrace, lockVer, bmux,
                   fwdVars>>

\* A faulty variant: a level that hits and is blocklisted is passed over and
\* the lower levels are still checked.
UrlLevel_PastBlocked(e) ==
    LET full == FullURL(e)
    IN  IF Check(full) /\ ~Blocked(full) THEN <<full>>
        ELSE IF Check(HostPath(full)) /\ ~Blocked(HostPath(full))
          THEN <<HostPath(full)>>
        ELSE IF Check(UPath(full)) THEN <<UPath(full)>>
        ELSE <<>>

\* A faulty variant: host and path is looked up before the full URL.
UrlLevel_HostPathFirst(e) ==
    LET full == FullURL(e)
    IN  IF Check(HostPath(full)) THEN <<HostPath(full)>>
        ELSE IF Check(full) THEN <<full>>
        ELSE IF Check(UPath(full)) THEN <<UPath(full)>>
        ELSE <<>>

\* The level of the URL chain that decides: the first of full URL, host and
\* path, path whose check hits; <<>> when none does.
UrlLevel(e) ==
    LET full == FullURL(e)
    IN  IF Check(full) THEN <<full>>
        ELSE IF Check(HostPath(full)) THEN <<HostPath(full)>>
        ELSE IF Check(UPath(full)) THEN <<UPath(full)>>
        ELSE <<>>

\* A faulty variant: the return after a URL that does not parse leaves the
\* mutex locked.
ParseErrorUnlocks_Not == FALSE

\* a.Unlock() before the return after a URL that does not parse.
ParseErrorUnlocks == TRUE

\* The URL part of the HTTP branch: a URL that does not parse ends the call;
\* else the deciding level raises an http-url alert unless it is blocked.
BUrl(c) ==
    /\ bpc[c] = "url" /\ bmu = c
    /\ IF ~ParseOk(FullURL(bev[c]))
         THEN /\ IF ParseErrorUnlocks THEN Unlock(c)
                 ELSE UNCHANGED <<bmu, bmux>>
              /\ BReturn(c)
              /\ UNCHANGED <<balert, checkVers>>
         ELSE /\ checkVers' = [checkVers EXCEPT ![c] = @ \cup {reloads}]
              /\ UNCHANGED <<bmu, bmux, bcount>>
              /\ LET lvl == UrlLevel(bev[c])
                 IN  IF lvl # <<>> /\ Emits(lvl[1])
                       THEN Raise(c, "http-url", lvl[1])
                       ELSE /\ bpc' = [bpc EXCEPT ![c] = "unlock"]
                            /\ UNCHANGED balert
    /\ UNCHANGED <<IocBloom, BlocklistIOCs, DatabaseEventChan, bev, rlpc,
                   reloads, btrace, lockVer, fwdVars>>

\* The DNS branch: a hit that is not blocked raises dns-req for a query,
\* dns-resp for an answer; any other DNS type ends the call.
BDns(c) ==
    /\ bpc[c] = "dns" /\ bmu = c
    /\ checkVers' = [checkVers EXCEPT ![c] = @ \cup {reloads}]
    /\ IF Check(bev[c].rrname) /\ Emits(bev[c].rrname)
         THEN IF bev[c].dnstype = "query"
                THEN Raise(c, "dns-req", bev[c].rrname)
                     /\ UNCHANGED <<bmu, bmux, bcount>>
              ELSE IF bev[c].dnstype = "answer"
                THEN Raise(c, "dns-resp", bev[c].rrname)
                     /\ UNCHANGED <<bmu, bmux, bcount>>
              ELSE /\ Unlock(c)
                   /\ BReturn(c)
                   /\ UNCHANGED balert
         ELSE /\ bpc' = [bpc EXCEPT ![c] = "unlock"]
              /\ UNCHANGED <<balert, bmu, bmux, bcount>>
    /\ UNCHANGED <<IocBloom, BlocklistIOCs, DatabaseEventChan, bev, rlpc,
                   reloads, btrace, lockVer, fwdVars>>

\* The TLS branch.
BTls(c) ==
    /\ bpc[c] = "tls" /\ bmu = c
    /\ checkVers' = [checkVers EXCEPT ![c] = @ \cup {reloads}]
    /\ IF Check(bev[c].sni) /\ Emits(bev[c].sni)
         THEN Raise(c, "tls-sni", bev[c].sni)
         ELSE /\ bpc' = [bpc EXCEPT ![c] = "unlock"]
              /\ UNCHANGED balert
    /\ UNCHANGED <<IocBloom, BlocklistIOCs, bmu, DatabaseEventChan, bev,
                   bcount, rlpc, reloads, btrace, lockVer, bmux,
                   fwdVars>>

\* What follows the database send of an alert: the forward call.
AfterDbSend == "fwd"

\* a.DatabaseEventChan <- n: waits while the channel is full.
BDbSend(c) ==
    /\ bpc[c] = "db" /\ bmu = c
    /\ Len(DatabaseEventChan) < DbCap
    /\ DatabaseEventChan' = Append(DatabaseEventChan, balert[c])
    /\ btrace' = [btrace EXCEPT ![c] = Append(@, <<"db", balert[c]>>)]
    /\ bpc' = [bpc EXCEPT ![c] = AfterDbSend]
    /\ UNCHANGED <<IocBloom, BlocklistIOCs, bmu, bev, balert, bcount, rlpc,
                   reloads, checkVers, lockVer, bmux,
                   fwdVars>>

\* a.ForwardHandler.Consume(&n); after a host alert the URL part follows,
\* after any other alert the end of the call.
BForward(c) ==
    /\ bpc[c] = "fwd" /\ bmu = c
    /\ btrace' = [btrace EXCEPT ![c] = Append(@, <<"fwd", balert[c]>>)]
    /\ bpc' = [bpc EXCEPT ![c] = IF balert[c].kind = "http-host"
                                   THEN "url" ELSE "unlock"]
    /\ balert' = [balert EXCEPT ![c] = NoAlert]
    /\ UNCHANGED <<IocBloom, BlocklistIOCs, bmu, DatabaseEventChan, bev,
                   bcount, rlpc, reloads, checkVers, lockVer, bmux,
                   fwdVars>>

\* a.Unlock() at the end of a branch.
BUnlock(c) ==
    /\ bpc[c] = "unlock" /\ bmu = c
    /\ Unlock(c)
    /\ BReturn(c)
    /\ UNCHANGED <<IocBloom, BlocklistIOCs, DatabaseEventChan, bev, balert,
                   rlpc, reloads, btrace, checkVers, lockVer, fwdVars>>

\* The database component takes an alert from the channel.
DbRecv ==
    /\ DatabaseEventChan # <<>>
    /\ DatabaseEventChan' = Tail(DatabaseEventChan)
    /\ UNCHANGED <<IocBloom, BlocklistIOCs, bmu, bpc, bev, balert, bcount,
                   rlpc, reloads, btrace, checkVers, lockVer, bmux,
                   fwdVars>>

\* ------------------------------------------------- BloomHandler.Reload
\* Reload is called and bloom.LoadFilter returns a filter (the file's, or
\* the empty default one).
RlLoad ==
    /\ rlpc = "idle" /\ reloads < MaxReloads
    /\ rlpc' = "swap"
    /\ UNCHANGED <<IocBloom, BlocklistIOCs, bmu, DatabaseEventChan, bpc,
                   bev, balert, bcount, reloads, btrace, checkVers, lockVer,
                   bmux,
                   fwdVars>>

\* A faulty variant: Reload replaces the filter without taking the mutex.
ReloadMayLock_NoMutex == TRUE

\* a.Lock() in Reload succeeds when nobody holds the mutex.
ReloadMayLock == bmu = 0

\* Under the mutex: a.IocBloom = iocBloom, and the scan of the blocklist,
\* which only logs.
RlSwap(f) ==
    /\ rlpc = "swap" /\ ReloadMayLock
    /\ IocBloom' = f
    /\ reloads' = reloads + 1
    /\ rlpc' = "idle"
    /\ UNCHANGED <<BlocklistIOCs, bmu, DatabaseEventChan, bpc, bev, balert,
                   bcount, btrace, checkVers, lockVer, bmux,
                   fwdVars>>

\* ---------------------------------------------------------------- Spec
\* The Bloom handler as the forwarding engine's specification leaves it.
BloomQuiet ==
    /\ IocBloom = {} /\ BlocklistIOCs = {}
    /\ bmu = 0 /\ DatabaseEventChan = <<>>
    /\ bpc = [c \in Consumers |-> "idle"]
    /\ bev = [c \in Consumers |-> NoEvent]
    /\ balert = [c \in Consumers |-> NoAlert]
    /\ bcount = [c \in Consumers |-> 0]
    /\ rlpc = "idle" /\ reloads = 0
    /\ btrace = [c \in Consumers |-> <<>>]
    /\ checkVers = [c \in Consumers |-> {}]
    /\ lockVer = [c \in Consumers |-> 0]
    /\ bmux = [c \in Consumers |-> [locks |-> 0, unlocks |-> 0]]

\* The configuration outside the retry limit, the queue and the stats
\* encoder in which every event is forwarded as it is: forward-all set, no
\* added fields, no stenosis connector, no rDNS.
ForwardAll ==
    /\ ForwardAllEvents = TRUE /\ AllowedTypes = {}
    /\ AddedFields = <<"}">>
    /\ StenosisConnector = FALSE /\ StenosisIface = "*"
    /\ DoRDNS = FALSE
    /\ evTypes = {"alert"}

\* The engine built with any retry limit and a stats encoder registered
\* (SubmitStats).
Init ==
    /\ ReconnectTimes \in 0..MaxReconnectTimes
    /\ chanCap = QueueCap
    /\ StatsEncoder = TRUE /\ SubmitPeriod = DefaultPeriod
    /\ budget = MaxCalls
    /\ ForwardAll /\ againBudget = 0
    /\ MakeForwardHandler
    /\ BloomQuiet

Next ==
    \/ RunAlloc \/ RunNotify \/ RunGo
    \/ StopBegin \/ StopWait \/ StopCloseConn \/ StopCloseReconn
    \/ StopCloseStop \/ StopCloseQueue
    \/ RDial \/ RFlag \/ RLoop \/ RRetry \/ RInstall \/ RClear
    \/ WOuter \/ WRange \/ WSel \/ WChk \/ WWrite \/ WNewline \/ WNotify
    \/ \E p \in Producers :
          \/ \E t \in evTypes : PCall(p, Event(t))
          \/ PEnqueue(p) \/ PCount(p)
    \/ CWake \/ CSnap \/ CSubmit
    \/ SinkDown \/ SinkUp

Spec == Init /\ [][Next]_vars

\* The submit periods a stats encoder is configured with, in milliseconds.
Periods == {500, 1500, 2000}

\* The engine with a stats encoder of any period, in front of a sink that
\* stays up.
CounterInit ==
    /\ ReconnectTimes = 0
    /\ chanCap = QueueCap
    /\ StatsEncoder = TRUE /\ SubmitPeriod \in Periods
    /\ budget = MaxCalls
    /\ ForwardAll /\ againBudget = 0
    /\ MakeForwardHandler
    /\ BloomQuiet

CounterNext ==
    \/ RunAlloc \/ RunNotify \/ RunGo
    \/ StopBegin \/ StopWait \/ StopCloseConn \/ StopCloseReconn
    \/ StopCloseStop \/ StopCloseQueue
    \/ RDial \/ RFlag \/ RLoop \/ RInstall \/ RClear
    \/ WOuter \/ WRange \/ WSel \/ WChk \/ WWrite \/ WNewline
    \/ \E p \in Producers :
          \/ \E t \in evTypes : PCall(p, Event(t))
          \/ PEnqueue(p) \/ PCount(p)
    \/ CWake \/ CSnap \/ CSubmit

CounterSpec == CounterInit /\ [][CounterNext]_vars

\* The engine in any configuration of the gate, the added fields, the
\* stenosis connector and rDNS, without a stats encoder, in front of a sink
\* that stays up; producers call Consume with events of every type.
GateInit ==
    /\ ReconnectTimes = 0
    /\ chanCap = QueueCap
    /\ StatsEncoder = FALSE /\ SubmitPeriod = DefaultPeriod
    /\ budget = MaxCalls
    /\ ForwardAllEvents \in BOOLEAN
    /\ AllowedTypes \in {{}, {"alert"}}
    /\ AddedFields \in {<<"}">>, <<",f", "}">>}
    /\ StenosisConnector \in BOOLEAN
    /\ StenosisIface \in {"*", "eth1"}
    /\ StenosisConnector = FALSE => StenosisIface = "*"
    /\ DoRDNS \in BOOLEAN
    /\ evTypes = EventTypes
    /\ againBudget = 0
    /\ MakeForwardHandler
    /\ BloomQuiet

GateNext ==
    \/ RunAlloc \/ RunNotify \/ RunGo
    \/ StopBegin \/ StopWait \/ StopCloseConn \/ StopCloseReconn
    \/ StopCloseStop \/ StopCloseQueue
    \/ RDial \/ RFlag \/ RLoop \/ RInstall \/ RClear
    \/ WOuter \/ WRange \/ WSel \/ WChk \/ WWrite \/ WNewline
    \/ \E p \in Producers :
          \/ \E t \in evTypes : PCall(p, Event(t))
          \/ PEnqueue(p) \/ PCount(p)
    \/ CWake

GateSpec == GateInit /\ [][GateNext]_vars

\* The engine forwarding every event to a sink that stays up, with a caller
\* that also calls Run on the running engine and Stop on the engine before
\* it runs and after it has stopped.
LifeInit ==
    /\ ReconnectTimes = 0
    /\ chanCap = QueueCap
    /\ StatsEncoder = FALSE /\ SubmitPeriod = DefaultPeriod
    /\ budget = MaxCalls
    /\ ForwardAll /\ againBudget = MaxAgain
    /\ MakeForwardHandler
    /\ BloomQuiet

LifeSpec == LifeInit /\ [][GateNext]_vars

BloomInit ==
    /\ ReconnectTimes = 0
    /\ chanCap = QueueCap
    /\ StatsEncoder = TRUE /\ SubmitPeriod = DefaultPeriod
    /\ budget = MaxCalls
    /\ ForwardAll /\ againBudget = 0
    /\ MakeForwardHandler
    /\ MakeBloomHandlerFromFile

BloomNext ==
    \/ \E c \in Consumers :
          \/ \E e \in Events : BCall(c, e)
          \/ BLock(c) \/ BHost(c) \/ BUrl(c) \/ BDns(c) \/ BTls(c)
          \/ BDbSend(c) \/ BForward(c) \/ BUnlock(c)
    \/ DbRecv
    \/ RlLoad
    \/ \E f \in SUBSET IOCs : RlSwap(f)

BloomSpec == BloomInit /\ [][BloomNext]_vars

\* ------------------------------------------------------------ fairness
\* The steps of each goroutine. A goroutine that can run is scheduled in
\* the end; a caller need not call Consume or Stop, and the sink need not
\* come back.
WriterStep == WOuter \/ WRange \/ WSel \/ WChk \/ WWrite \/ WNewline \/ WNotify
ReconnStep == RDial \/ RFlag \/ RLoop \/ RRetry \/ RInstall \/ RClear
RunStep == RunAlloc \/ RunNotify \/ RunGo
StopStep == StopWait \/ StopCloseConn \/ StopCloseReconn \/ StopCloseStop
            \/ StopCloseQueue
ProducerStep(p) == PEnqueue(p) \/ PCount(p)

Fairness ==
    /\ WF_vars(WriterStep)
    /\ WF_vars(ReconnStep)
    /\ WF_vars(CWake)
    /\ WF_vars(RunStep)
    /\ WF_vars(StopStep)
    /\ WF_vars(ProducerStep(1))

\* The engine built to retry for ever and without a stats encoder (the
\* counter task then only waits for its stop signal), fed by one producer.
LiveInit ==
    /\ ReconnectTimes = 0
    /\ chanCap = LiveQueueCap
    /\ StatsEncoder = FALSE /\ SubmitPeriod = DefaultPeriod
    /\ budget = LiveCalls
    /\ ForwardAll /\ againBudget = 0
    /\ MakeForwardHandler
    /\ BloomQuiet

LiveNext ==
    \/ RunAlloc \/ RunNotify \/ RunGo
    \/ StopBegin \/ StopWait \/ StopCloseConn \/ StopCloseReconn
    \/ StopCloseStop \/ StopCloseQueue
    \/ RDial \/ RFlag \/ RLoop \/ RRetry \/ RInstall \/ RClear
    \/ WOuter \/ WRange \/ WSel \/ WChk \/ WWrite \/ WNewline \/ WNotify
    \/ (\E t \in evTypes : PCall(1, Event(t))) \/ PEnqueue(1) \/ PCount(1)
    \/ CWake
    \/ SinkDown \/ SinkUp

FairSpec == LiveInit /\ [][LiveNext]_vars /\ Fairness

\* The steps of a Consume call in progress, and of a Reload that has loaded
\* its filter. A goroutine that can run is scheduled in the end, and
\* sync.Mutex hands the mutex to a goroutine that waits for it; the database
\* component keeps receiving, and the forward handler takes the alert. The
\* callers need not call Consume or Reload.
ConsumeStep(c) ==
    \/ BLock(c) \/ BHost(c) \/ BUrl(c) \/ BDns(c) \/ BTls(c)
    \/ BDbSend(c) \/ BForward(c) \/ BUnlock(c)

\* The filters the fair specification loads: the one that answers true for
\* nothing and the one that answers true for every string looked up.
LiveFilters == {{}, IOCs}

ReloadStep == \E f \in LiveFilters : RlSwap(f)

BloomFairness ==
    /\ \A c \in Consumers : WF_vars(ConsumeStep(c))
    /\ WF_vars(DbRecv)
    /\ WF_vars(ReloadStep)

BloomLiveInit == BloomInit /\ IocBloom \in LiveFilters

BloomLiveNext ==
    \/ \E c \in Consumers :
          \/ \E e \in Events : BCall(c, e)
          \/ BLock(c) \/ BHost(c) \/ BUrl(c) \/ BDns(c) \/ BTls(c)
          \/ BDbSend(c) \/ BForward(c) \/ BUnlock(c)
    \/ DbRecv
    \/ RlLoad
    \/ \E f \in LiveFilters : RlSwap(f)

BloomFairSpec == BloomLiveInit /\ [][BloomLiveNext]_vars /\ BloomFairness

\* ================================================================ claims
IsPayload(t) == t.src # 0
Last(q) == q[Len(q)]

\* Every payload of a log is followed by a newline, every newline follows a
\* payload.
Framed(log) ==
    \A i \in 1..Len(log) :
        /\ (IsPayload(log[i]) /\ i < Len(log)) => log[i + 1] = NL
        /\ log[i] = NL => (i > 1 /\ IsPayload(log[i - 1]))

\* C1: on every connection the sink has received payloads each followed by
\* exactly one newline, nothing between a payload and its newline; a
\* payload still without its newline is the one the writer is writing, or
\* the last thing written to a connection that then failed; and the
\* payloads of one producer appear in the order of their enqueues.
C1_OrderedAndFramed ==
    /\ \A c \in DOMAIN sinkLog :
          /\ Framed(sinkLog[c])
          /\ (sinkLog[c] # <<>> /\ IsPayload(Last(sinkLog[c])))
                => \/ wpc = "nl" /\ OutputConn = c
                   \/ ~WriteOk(c)
    /\ \A c1, c2 \in DOMAIN sinkLog :
          \A i \in 1..Len(sinkLog[c1]), j \in 1..Len(sinkLog[c2]) :
              ( /\ c1 < c2 \/ (c1 = c2 /\ i < j)
                /\ IsPayload(sinkLog[c1][i])
                /\ sinkLog[c1][i].src = sinkLog[c2][j].src )
              => sinkLog[c1][i].seq < sinkLog[c2][j].seq

\* Two payloads of one producer, each with its newline, on one connection.
C1_Witness ==
    \E c \in DOMAIN sinkLog :
        /\ Len(sinkLog[c]) = 4
        /\ sinkLog[c][1].src = sinkLog[c][3].src
        /\ sinkLog[c][4] = NL

\* C2: no payload enqueued between a write failure and the completion of
\* the reconnection that follows is ever written to a socket.
C2_DroppedDuringOutage ==
    \A c \in DOMAIN sinkLog :
        \A i \in 1..Len(sinkLog[c]) : ~sinkLog[c][i].out

\* C3: the reconnector never dials or installs a socket for a request
\* that a reconnect cycle has already answered: the socket whose failure the
\* request it serves reports is still the one installed.
C3_OneCampaignPerCycle ==
    rpc \in {"dial", "flag", "loop", "retry", "install"}
        => rtag = OutputConn

\* C4: once Stop has been called on a running engine, and as long as the
\* process lives, the writer closes ack in the end, and never twice.
C4_StopAcknowledged ==
    /\ (mpc = "stop_wait") ~> (ackCloses = 1 \/ proc # "up")
    /\ [](ackCloses <= 1)

\* C5: a Consume call on a running engine returns in the end, whatever the
\* sink does.
C5_ConsumeReturns ==
    (ppc[1] = "enq") ~> (ppc[1] # "enq" \/ proc # "up" \/ mpc # "up")

\* C6: no alert sent to the database channel or handed to the forward
\* handler, nor the alert a consumer has in hand, names a blocklisted
\* indicator.
C6_BlocklistSuppression ==
    /\ \A i \in 1..Len(DatabaseEventChan) :
          DatabaseEventChan[i].ioc \notin BlocklistIOCs
    /\ \A c \in Consumers :
          /\ balert[c].ioc \notin BlocklistIOCs
          /\ \A i \in 1..Len(btrace[c]) :
                btrace[c][i][2].ioc \notin BlocklistIOCs

\* After a reload, a TLS event whose SNI hits the filter and is blocklisted
\* has been screened and has raised nothing.
C6_Witness ==
    \E c \in Consumers :
        /\ bpc[c] = "unlock" /\ bev[c].type = "tls" /\ reloads >= 1
        /\ Check(bev[c].sni) /\ Blocked(bev[c].sni)
        /\ btrace[c] = <<>>

\* The http-url alerts the current event of consumer c has sent to the
\* database channel, by position in its trace.
UrlAlerts(c) ==
    { i \in 1..Len(btrace[c]) :
        btrace[c][i][1] = "db" /\ btrace[c][i][2].kind = "http-url" }

\* C7: an HTTP event raises at most one http-url alert; its IOC is the
\* first of full URL, host and path, path that hits the filter; and when
\* full URL and host and path both hit and neither is blocklisted, the event
\* ends with exactly one http-url alert, on the full URL.
C7_HttpPriority ==
    \A c \in Consumers :
        bev[c].type = "http" =>
            LET full == FullURL(bev[c])
                hp   == HostPath(full)
                path == UPath(full)
            IN  /\ Cardinality(UrlAlerts(c)) <= 1
                /\ bmu = c =>
                      \A i \in UrlAlerts(c) :
                          LET x == btrace[c][i][2].ioc
                          IN  /\ x \in {full, hp, path}
                              /\ Check(x)
                              /\ x # full => ~Check(full)
                              /\ x \notin {full, hp} => ~Check(hp)
                /\ ( /\ bpc[c] = "unlock"
                     /\ Check(full) /\ Check(hp)
                     /\ ~Blocked(full) /\ ~Blocked(hp) )
                   => \E i \in UrlAlerts(c) : btrace[c][i][2].ioc = full

\* An HTTP event whose full URL and host and path both hit, neither
\* blocklisted, at the end of its screening with its alert sent.
C7_Witness ==
    \E c \in Consumers :
        LET full == FullURL(bev[c])
        IN  /\ bev[c].type = "http" /\ bpc[c] = "unlock"
            /\ Check(full) /\ Check(HostPath(full))
            /\ full # HostPath(full)
            /\ ~Blocked(full) /\ ~Blocked(HostPath(full))
            /\ UrlAlerts(c) # {}

\* C8: the forward handler is called with an alert right after the send of
\* that alert on the database channel has completed, and with nothing else;
\* a host alert's send and forward call come before a URL alert's send.
C8_DatabaseBeforeForward ==
    \A c \in Consumers :
        /\ \A i \in 1..Len(btrace[c]) :
              /\ btrace[c][i][1] = "fwd" =>
                    /\ i > 1
                    /\ btrace[c][i - 1] = <<"db", btrace[c][i][2]>>
              /\ (btrace[c][i][1] = "db" /\ i < Len(btrace[c])) =>
                    btrace[c][i + 1] = <<"fwd", btrace[c][i][2]>>
        /\ bpc[c] = "fwd" =>
              /\ btrace[c] # <<>>
              /\ Last(btrace[c]) = <<"db", balert[c]>>
        /\ \A i, j \in 1..Len(btrace[c]) :
              ( /\ btrace[c][i][2].kind = "http-host"
                /\ btrace[c][j][2].kind = "http-url" ) => i < j

\* One HTTP event has raised a host alert and then a URL alert, both sent
\* and forwarded.
C8_Witness ==
    \E c \in Consumers :
        /\ Len(btrace[c]) = 4
        /\ btrace[c][2] = <<"fwd", btrace[c][1][2]>>
        /\ btrace[c][1][2].kind = "http-host"
        /\ btrace[c][3][2].kind = "http-url"
        /\ btrace[c][4][1] = "fwd"

\* C9: while a consumer holds the mutex the filter is the one it found when
\* it locked, and every check of the event it screens was answered by that
\* filter.
C9_ReloadAtomicity ==
    \A c \in Consumers :
        /\ Cardinality(checkVers[c]) <= 1
        /\ bmu = c =>
              /\ reloads = lockVer[c]
              /\ checkVers[c] \subseteq {lockVer[c]}

\* After an earlier reload, an HTTP event has been screened to its end while
\* a further reload waits for the mutex.
C9_Witness ==
    \E c \in Consumers :
        /\ rlpc = "swap" /\ reloads >= 1
        /\ bmu = c /\ bpc[c] = "unlock" /\ bev[c].type = "http"
        /\ checkVers[c] = {lockVer[c]}

\* C10: at a submission the live counter was left at zero by the snapshot
\* and the figure is the number of payloads enqueued since the previous
\* snapshot, divided by the submit period in seconds.
C10_EnqueuedPerSecond ==
    cpc = "submit" =>
        /\ snapLive = 0
        /\ myStats = (snapEnq * 1000) \div SubmitPeriod

C12_AllowListGating ==
    [][ /\ calls' = calls + 1 =>
           \E p \in Producers :
              /\ ppc[p] = "idle"
              /\ \A q \in Producers \ {p} :
                    pev'[q] = pev[q] /\ pret'[q] = pret[q] /\ ppc'[q] = ppc[q]
              /\ ~(ForwardAllEvents \/ pev'[p].type \in AllowedTypes) =>
                    /\ ForwardEventChan' = ForwardEventChan
                    /\ ForwardedPerSec' = ForwardedPerSec
                    /\ accepted' = accepted
                    /\ ppc' = ppc /\ sent' = sent
                    /\ pev'[p].line = JsonLine
                    /\ pret'[p] = "nil"
        /\ Len(ForwardEventChan') > Len(ForwardEventChan) =>
              \E p \in Producers :
                 /\ ppc[p] = "enq" /\ ppc'[p] = "inc"
                 /\ ForwardAllEvents \/ pev[p].type \in AllowedTypes
        /\ accepted' > accepted =>
              \E p \in Producers :
                 /\ ppc[p] = "idle" /\ pret'[p] = "nil"
                 /\ ForwardAllEvents \/ pev'[p].type \in AllowedTypes
      ]_vars

\* One producer's payload has been enqueued and counted, and another
\* producer's call with an event the gate refuses has returned nil.
C12_Witness ==
    \E p, q \in Producers :
        /\ ~ForwardAllEvents /\ pev[p].type \notin AllowedTypes
        /\ ppc[p] = "idle" /\ pret[p] = "nil" /\ sent[p] = 0
        /\ pev[p].line = JsonLine
        /\ sent[q] = 1 /\ pev[q].type \in AllowedTypes

\* C13: Run and Stop are idempotent. A call of Run on a running engine and
\* a call of Stop on an engine that is not running (before Run, or after an
\* earlier Stop) change nothing: no channel is made or closed, no task is
\* started, no reconnect request is sent, the socket and the running flag
\* stay as they are.
C13_Idempotent ==
    [][agains' # agains =>
          UNCHANGED <<cfgV, chanV, mpc, Running, writerV, reconnV, counterV,
                      statV, prodV, queueV, sockV, envV, histV, Reconnecting,
                      Lock, proc, bloomV>>]_vars

\* Run has been called on the running engine and Stop on the stopped one.
C13_Witness ==
    /\ agains = [run |-> 1, stop |-> 1]
    /\ mpc = "down" /\ ~Running /\ queueState = "closed"

\* C14: the retry limit. The process is ended by the reconnector only with
\* a limit n > 0, after the first dial and exactly n retries have all
\* failed; with such a limit reached the reconnector neither dials again
\* nor installs a connection. With the limit 0, after a dial that succeeded
\* and after the stop-reconnect signal ended the campaign the process is
\* not ended.
C14_RetryLimit ==
    [][/\ ReconnectTimes > 0 => ri' <= ReconnectTimes
       /\ proc' = "fatal" =>
             /\ ReconnectTimes > 0 /\ ri' = ReconnectTimes
             /\ rerr' /\ rpc' = "loop"
       /\ (rpc = "loop" /\ rerr /\ ReconnectTimes > 0
             /\ ri = ReconnectTimes) => rpc' = "loop"
       /\ rpc \in {"done", "install", "clear"} => proc' # "fatal"]_vars

\* The limit was reached with every dial failed, and the process ended.
C14_Witness ==
    /\ proc = "fatal" /\ ReconnectTimes = MaxReconnectTimes
    /\ ri = ReconnectTimes /\ rerr

\* A campaign was ended by the stop-reconnect signal with its dial failed.
C14_WitnessAborted ==
    /\ rpc = "done" /\ rerr /\ proc = "up"

\* C15: every write error of the writer, on the payload or on the newline,
\* closes the socket, releases the socket mutex and raises a reconnect
\* request: after the failed write the writer is at the send on the
\* reconnect-request channel.
C15_WriteErrorRequestsReconnect ==
    [][(/\ wpc \in {"lock", "nl"} /\ wpc' # wpc
        /\ OutputConn # 0 /\ ~WriteOk(OutputConn)) =>
          /\ ~conns'[OutputConn].open
          /\ Lock' = "free"
          /\ wpc' = "notify"]_vars

\* The levels of the URL chain of event e, in the order they are checked.
UrlLevels(e) == <<FullURL(e), HostPath(FullURL(e)), UPath(FullURL(e))>>

\* C16: the fall-through of the URL chain. With the URL part of an HTTP
\* event done, at the first level (full URL, host and path, path) whose
\* value hits the filter: a value that is not blocklisted has raised the
\* one http-url alert of the event; a blocklisted value has raised nothing
\* and no lower level has raised anything either. With no level hitting
\* nothing was raised.
C16_HttpFallThrough ==
    \A c \in Consumers :
        (bev[c].type = "http" /\ bpc[c] = "unlock") =>
            LET L == UrlLevels(bev[c])
                hits == {k \in 1..3 : Check(L[k])}
                urls == {btrace[c][i][2].ioc : i \in UrlAlerts(c)}
            IN  IF hits = {} THEN urls = {}
                ELSE LET k == CHOOSE j \in hits : \A m \in hits : j <= m
                     IN  IF Blocked(L[k]) THEN urls = {}
                         ELSE /\ urls = {L[k]}
                              /\ Cardinality(UrlAlerts(c)) = 1

\* An HTTP event whose full URL hits and is blocklisted while its host and
\* path hits and is not: the screening is over with no http-url alert.
C16_Witness ==
    \E c \in Consumers :
        LET L == UrlLevels(bev[c])
        IN  /\ bev[c].type = "http" /\ bpc[c] = "unlock"
            /\ Check(L[1]) /\ Blocked(L[1])
            /\ Check(L[2]) /\ ~Blocked(L[2])
            /\ UrlAlerts(c) = {}

\* C17: the lock discipline of the socket mutex. The writer does not hold
\* it while it waits to hand over a reconnect request; the reconnector does
\* not hold it while it dials, sleeps or waits; the counter does not hold it
\* while it submits. It is held from one step to the next only by the
\* writer between the payload and its newline, and the writer can then
\* always go on and release it, so nobody waits for it for ever. (The
\* reconnect mutex is taken and released within RFlag, RClear and WChk.)
C17_LockDiscipline ==
    /\ wpc = "notify" => Lock # "writer"
    /\ rpc \in {"recv", "dial", "flag", "loop", "retry", "clear", "done"}
          => Lock # "reconn"
    /\ cpc = "submit" => Lock # "counter"
    /\ Lock \in {"free", "writer"}
    /\ Lock = "writer" => /\ wpc = "nl"
                          /\ proc = "up" => ENABLED WNewline

\* The writer waits to hand over a reconnect request while the reconnector
\* is between two dials and a producer has taken the socket mutex's turn to
\* count its payload.
C17_Witness ==
    /\ wpc = "notify" /\ rpc = "retry" /\ Lock = "free"
    /\ \E p \in Producers : ppc[p] = "inc"

\* C18: once Stop has closed the socket and the stop-reconnect channel, and
\* so once it has returned, the engine holds no open socket: the reconnector
\* installs no new connection after that.
C18_NoSocketAfterStop ==
    (StopReconnectChan = "closed" /\ proc = "up") =>
        (OutputConn = 0 \/ ~conns[OutputConn].open)

\* C19: Stop on a running engine completes without a fault in every state,
\* also before the first connection is installed: the process never ends
\* in a panic inside Stop, at the close of the socket.
C19_StopWithoutFault ==
    ~(proc = "panic" /\ mpc = "stop_conn")

\* C20: no Consume call sends on the forward queue after Stop has closed
\* it: the process never ends in the panic of such a send.
C20_NoSendOnClosedQueue ==
    ~(/\ proc = "panic" /\ queueState = "closed"
      /\ \E p \in Producers : ppc[p] = "enq")

\* The handler mutex as consumer c's Consume call has used it so far.
MutexUse(c) ==
    CASE bpc[c] = "idle" ->
            /\ bmu # c
            /\ bmux[c].unlocks = bmux[c].locks
            /\ bmux[c].locks =
                  IF bev[c].type \in {"http", "dns", "tls"} /\ bev[c] # NoEvent
                    THEN 1 ELSE 0
      [] bpc[c] = "lock" ->
            /\ bmu # c
            /\ bmux[c] = [locks |-> 0, unlocks |-> 0]
      [] OTHER ->
            /\ bmu = c
            /\ bmux[c] = [locks |-> 1, unlocks |-> 0]

\* C21: every path through BloomHandler.Consume has released the mutex
\* exactly once when it returns (the URL that does not parse and the invalid
\* DNS type included) and an event of another type never takes it; with no
\* Consume call past its Lock the mutex is free; and a Reload that waits for
\* the mutex gets it in the end.
C21_MutexReleased ==
    /\ [](\A c \in Consumers : MutexUse(c))
    /\ []((\A c \in Consumers : bpc[c] \in {"idle", "lock"}) => bmu = 0)
    /\ (rlpc = "swap") ~> (rlpc = "idle")

\* A Consume call has returned after a URL that did not parse, with the
\* mutex taken once and released once, while a Reload waits for the mutex.
C21_Witness ==
    \E c \in Consumers :
        /\ bpc[c] = "idle" /\ bev[c].type = "http"
        /\ ~ParseOk(FullURL(bev[c]))
        /\ bmux[c] = [locks |-> 1, unlocks |-> 1]
        /\ bmu = 0 /\ rlpc = "swap"
====
